---------------------------- MODULE Spec2Model ----------------------------
(***************************************************************************)
(* A model of the EIP-1559 gas estimator: scripts/gasEstimator.js (the     *)
(* script with gasEstimator and dataFormatter) and                         *)
(* utils/helperFunctions.js (asc, sum, mean, quantile).                    *)
(*                                                                         *)
(* Numbers.  A JavaScript number x is the record Num(Scale * x): the model *)
(* keeps every number in tenths, as an integer.  The quantile positions    *)
(* the script uses are 0.3, 0.6 and 0.9, and the fee samples are whole     *)
(* numbers of wei, so every tier is a whole number of tenths and the       *)
(* arithmetic below is exact.  The values undefined and NaN are records of *)
(* their own.  IEEE-754 rounding of the double arithmetic (relative error  *)
(* about 1e-16) is outside the model.                                      *)
(*                                                                         *)
(* Two specifications:                                                     *)
(*   Spec     one run of the script, one action per point where an await   *)
(*            resumes (a provider call resolves or rejects);               *)
(*   SpecLib  the pure functions quantile, mean and dataFormatter applied  *)
(*            once to an input drawn in its initial state.                 *)
(***************************************************************************)
EXTENDS Integers, Sequences, FiniteSets

VARIABLES
    \* ---- the run of the script (Spec)
    pc,                     \* the provider call the run awaits, or "exited"
    blockNumber,            \* const blockNumber            (line 5)
    i,                      \* the loop variable            (line 7)
    blocks,                 \* const blocks = []            (line 6)
    slowMaxPriorityFee,     \* line 13
    averageMaxPriorityFee,  \* line 17
    fastMaxPriorityFee,     \* line 21
    calls,                  \* the provider methods called, in order
    fetched,                \* the arguments of getBlockWithTransactions, in order
    stdout,                 \* what console.log printed      (line 27)
    stderr,                 \* what console.error printed    (line 57)
    baseFeePerGas,          \* const baseFeePerGas          (line 26)
    exitCode,               \* the codes process.exit was called with (lines 55, 58)
    \* ---- one call of a pure function (SpecLib)
    fn,                     \* the function under call
    arr,                    \* the caller's array, passed to quantile or mean
    q,                      \* quantile's q, in tenths
    block,                  \* the raw block passed to dataFormatter
    returned,               \* "no", "yes", or "threw"
    ret,                    \* the value quantile or mean returned
    divisors,               \* the divisors of the divisions the call evaluated
    summary,                \* the object dataFormatter returned
    maxPriorityFeePerGasArray \* dataFormatter's local array when it returns

runVars == <<pc, blockNumber, i, blocks, slowMaxPriorityFee,
             averageMaxPriorityFee, fastMaxPriorityFee, calls, fetched,
             stdout, stderr, baseFeePerGas, exitCode>>
libVars == <<fn, arr, q, block, returned, ret, divisors, summary,
             maxPriorityFeePerGasArray>>
vars == <<runVars, libVars>>

----------------------------------------------------------------------------
(* Bounds of the model *)

MaxTx == 2            \* transactions in a block of the window
MaxFee == 1           \* largest maxPriorityFeePerGas of a transaction (wei)
MaxBaseFee == 1       \* largest baseFeePerGas of the pending block (wei)
MaxBlockNumber == 5   \* largest value getBlockNumber resolves to
MaxLen == 3           \* longest array handed to quantile or mean alone
MaxVal == 3           \* largest element of such an array

(* Constants of the program *)

Scale == 10           \* denominator of the literals 0.3, 0.6, 0.9
Q30 == 3              \* quantile(..., 0.3)
Q60 == 6              \* quantile(..., 0.6)
Q90 == 9              \* quantile(..., 0.9)
WindowSize == 4       \* blockNumber - 4
Eip1559 == 2          \* tx.type === 2
ExitSuccess == 0      \* process.exit(0)
ExitFailure == 1      \* process.exit(1)

----------------------------------------------------------------------------
(* JavaScript values *)

Undefined == [type |-> "undefined", v |-> 0]
NaN == [type |-> "NaN", v |-> 0]
Num(x) == [type |-> "number", v |-> x]
IsNum(a) == a.type = "number"

\* a + b on numbers; undefined or NaN on either side gives NaN
Plus(a, b) == IF IsNum(a) /\ IsNum(b) THEN Num(a.v + b.v) ELSE NaN

\* arr[k] with JavaScript's 0-based index; undefined outside the array
At(a, k) == IF k + 1 \in DOMAIN a THEN a[k + 1] ELSE Undefined

(* A fee field of the provider's answer: an ethers BigNumber that          *)
(* toNumber() converts, or a field on which .toNumber() throws (a          *)
(* BigNumber beyond Number.MAX_SAFE_INTEGER, or no BigNumber at all, as    *)
(* maxPriorityFeePerGas of a legacy transaction)                           *)
BN(x) == [safe |-> TRUE, n |-> x]
UnsafeBN == [safe |-> FALSE, n |-> 0]
toNumber(b) == Num(Scale * b.n)

SeqsUpTo(S, n) == UNION {[1..k -> S] : k \in 0..n}

----------------------------------------------------------------------------
(* utils/helperFunctions.js *)

RECURSIVE InsertDescending(_, _)
InsertDescending(x, s) ==
    IF s = <<>> THEN <<x>>
    ELSE IF s[1].v - x.v < 0 THEN <<x>> \o s
    ELSE <<s[1]>> \o InsertDescending(x, Tail(s))

\* the comparator (a, b) => a - b of the sort: x goes before the first
\* element it compares below, after its equals (the sort is stable)
RECURSIVE Insert(_, _)
Insert(x, s) ==
    IF s = <<>> THEN <<x>>
    ELSE IF x.v - s[1].v < 0 THEN <<x>> \o s
    ELSE <<s[1]>> \o Insert(x, Tail(s))

\* const asc = (arr) => arr.sort((a, b) => a - b): the array in ascending
\* order.  The sort is in place: the callers below store the result back
\* into the array they passed.
RECURSIVE asc(_)
asc(a) == IF a = <<>> THEN <<>> ELSE Insert(a[Len(a)], asc(SubSeq(a, 1, Len(a) - 1)))

\* const sum = (arr) => arr.reduce((a, b) => a + b, 0)
RECURSIVE sum(_)
sum(a) == IF a = <<>> THEN Num(0) ELSE Plus(sum(SubSeq(a, 1, Len(a) - 1)), a[Len(a)])

\* Math.floor in place of Math.round
meanFloor(a) ==
    LET s == sum(a)
        n == Len(a)
    IN IF ~IsNum(s) \/ n = 0 THEN NaN
       ELSE Num(Scale * (s.v \div (Scale * n)))

\* const mean = (arr) => Math.round(sum(arr) / arr.length)
\* sum(arr) / arr.length is NaN when the sum is NaN and 0 / 0 = NaN when the
\* array is empty; Math.round(NaN) is NaN.  Otherwise, with the sum s.v in
\* tenths, Math.round(x) = floor(x + 1/2) of x = s.v / (Scale * n).
mean(a) ==
    LET s == sum(a)
        n == Len(a)
    IN IF ~IsNum(s) \/ n = 0 THEN NaN
       ELSE Num(Scale * ((2 * s.v + Scale * n) \div (2 * Scale * n)))

\* the interpolation weighted from the upper neighbour
quantileSwapped(a, q10) ==
    LET sorted == asc(a)
        pos == (Len(sorted) - 1) * q10
        base == pos \div Scale
        rest == pos % Scale
    IN IF At(sorted, base + 1) # Undefined
       THEN Num(At(sorted, base + 1).v
                - (rest * (At(sorted, base + 1).v - At(sorted, base).v)) \div Scale)
       ELSE At(sorted, base)

\* const quantile = (arr, q) => { ... }, q10 = Scale * q.
\* pos is in tenths: base = Math.floor(pos), rest = pos - base (in tenths).
quantile(a, q10) ==
    LET sorted == asc(a)
        pos == (Len(sorted) - 1) * q10
        base == pos \div Scale
        rest == pos % Scale
    IN IF At(sorted, base + 1) # Undefined
       THEN Num(At(sorted, base).v
                + (rest * (At(sorted, base + 1).v - At(sorted, base).v)) \div Scale)
       ELSE At(sorted, base)

----------------------------------------------------------------------------
(* scripts/gasEstimator.js: dataFormatter *)

RECURSIVE Map(_, _)
Map(s, k) == IF k > Len(s) THEN <<>>
             ELSE <<toNumber(s[k].maxPriorityFeePerGas)>> \o Map(s, k + 1)

\* (tx) => tx.type === 2
IsEip1559(tx) == tx.type = Eip1559

\* the filter left out
SamplesUnfiltered(b) == Map(b.transactions, 1)

\* transactions.filter((tx) => tx.type === 2)
\*             .map((tx) => tx.maxPriorityFeePerGas.toNumber())
Samples(b) == Map(SelectSeq(b.transactions, IsEip1559), 1)

\* toNumber() throws on a type-2 transaction whose fee is not a safe integer
dataFormatterThrows(b) ==
    \E k \in DOMAIN b.transactions :
        /\ IsEip1559(b.transactions[k])
        /\ ~b.transactions[k].maxPriorityFeePerGas.safe

\* the object dataFormatter returns.  Its baseFeePerGas and gasUsedRatio
\* fields are never read by gasEstimator and are left out.
dataFormatter(b) ==
    LET a == Samples(b)
    IN [number |-> b.number,
        maxPriorityFeePerGas |-> <<quantile(a, Q30), quantile(a, Q60), quantile(a, Q90)>>]


----------------------------------------------------------------------------
(* What the provider can answer *)

BigNumbers(max) == {BN(x) : x \in 0..max} \cup {UnsafeBN}
\* transactions of type 2 (EIP-1559), and of type 0 (legacy), which carry
\* no maxPriorityFeePerGas
Transactions ==
    [type : {Eip1559}, maxPriorityFeePerGas : BigNumbers(MaxFee)]
    \cup [type : {0}, maxPriorityFeePerGas : {UnsafeBN}]
TransactionLists == SeqsUpTo(Transactions, MaxTx)
\* the head of the chain when the run starts: one of two consecutive numbers
BlockNumbers == (MaxBlockNumber - 1)..MaxBlockNumber

----------------------------------------------------------------------------
(* scripts/gasEstimator.js: gasEstimator and its call site *)

\* for (let i = blockNumber - 4; ...
LoopStart(n) == n - WindowSize

LoopConditionInclusive(k, n) == k <= n

\* ...; i < blockNumber; ...
LoopCondition(k, n) == k < n

Column(bs, t) == [k \in DOMAIN bs |-> bs[k].maxPriorityFeePerGas[t]]

EstimateSwapped(base, slow, average, fast) ==
    [slow |-> Plus(base, fast),
     average |-> Plus(base, average),
     fast |-> Plus(base, slow)]

\* { slow: baseFeePerGas + slowMaxPriorityFee, average: ..., fast: ... }
Estimate(base, slow, average, fast) ==
    [slow |-> Plus(base, slow),
     average |-> Plus(base, average),
     fast |-> Plus(base, fast)]

FailExitZero(error) ==
    /\ stderr' = Append(stderr, error)
    /\ exitCode' = Append(exitCode, ExitSuccess)
    /\ pc' = "exited"
    /\ UNCHANGED <<blockNumber, i, blocks, slowMaxPriorityFee,
                   averageMaxPriorityFee, fastMaxPriorityFee, calls, fetched,
                   stdout, baseFeePerGas>>
    /\ UNCHANGED libVars

\* an await rejects or a callee throws: gasEstimator's promise rejects and
\* .catch((error) => { console.error(error); process.exit(1) }) runs
Fail(error) ==
    /\ stderr' = Append(stderr, error)
    /\ exitCode' = Append(exitCode, ExitFailure)
    /\ pc' = "exited"
    /\ UNCHANGED <<blockNumber, i, blocks, slowMaxPriorityFee,
                   averageMaxPriorityFee, fastMaxPriorityFee, calls, fetched,
                   stdout, baseFeePerGas>>
    /\ UNCHANGED libVars

\* the state of the pure-function variables during a run of the script
LibIdle ==
    /\ fn = "none"
    /\ arr = <<>>
    /\ q = 0
    /\ block = [number |-> 0, transactions |-> <<>>]
    /\ returned = "no"
    /\ ret = Undefined
    /\ divisors = <<>>
    /\ summary = Undefined
    /\ maxPriorityFeePerGasArray = <<>>

\* gasEstimator() is called and runs to its first await:
\* getBlockNumber() has been called and has not answered
RunInit ==
    /\ pc = "getBlockNumber"
    /\ blockNumber = 0
    /\ i = 0
    /\ blocks = <<>>
    /\ slowMaxPriorityFee = Undefined
    /\ averageMaxPriorityFee = Undefined
    /\ fastMaxPriorityFee = Undefined
    /\ calls = <<"getBlockNumber">>
    /\ fetched = <<>>
    /\ stdout = <<>>
    /\ stderr = <<>>
    /\ baseFeePerGas = Undefined
    /\ exitCode = <<>>

Init == RunInit /\ LibIdle

\* getBlockNumber() resolves to n: the loop starts and calls
\* getBlockWithTransactions(n - 4)
GetBlockNumberResolved ==
    /\ pc = "getBlockNumber"
    /\ \E n \in BlockNumbers :
        /\ blockNumber' = n
        /\ i' = LoopStart(n)
        /\ IF LoopCondition(LoopStart(n), n)
           THEN /\ calls' = Append(calls, "getBlockWithTransactions")
                /\ fetched' = Append(fetched, LoopStart(n))
                /\ pc' = "getBlockWithTransactions"
           ELSE /\ calls' = Append(calls, "getBlock")
                /\ fetched' = fetched
                /\ pc' = "getBlock"
    /\ UNCHANGED <<blocks, slowMaxPriorityFee, averageMaxPriorityFee,
                   fastMaxPriorityFee, stdout, stderr, baseFeePerGas, exitCode>>
    /\ UNCHANGED libVars

GetBlockNumberRejected ==
    /\ pc = "getBlockNumber"
    /\ Fail("getBlockNumber")

\* getBlockWithTransactions(i) resolves to a block: dataFormatter, push, i++,
\* and then either the next fetch or, the loop over, the three means and
\* the call of getBlock("pending")
GetBlockWithTransactionsResolved ==
    /\ pc = "getBlockWithTransactions"
    /\ \E txs \in TransactionLists :
        LET b == [number |-> i, transactions |-> txs]
            bs == Append(blocks, dataFormatter(b))
        IN IF dataFormatterThrows(b)
           THEN Fail("toNumber")
           ELSE /\ blocks' = bs
                /\ i' = i + 1
                /\ IF LoopCondition(i + 1, blockNumber)
                   THEN /\ calls' = Append(calls, "getBlockWithTransactions")
                        /\ fetched' = Append(fetched, i + 1)
                        /\ pc' = "getBlockWithTransactions"
                        /\ UNCHANGED <<slowMaxPriorityFee, averageMaxPriorityFee,
                                       fastMaxPriorityFee>>
                   ELSE /\ slowMaxPriorityFee' = mean(Column(bs, 1))
                        /\ averageMaxPriorityFee' = mean(Column(bs, 2))
                        /\ fastMaxPriorityFee' = mean(Column(bs, 3))
                        /\ calls' = Append(calls, "getBlock")
                        /\ fetched' = fetched
                        /\ pc' = "getBlock"
                /\ UNCHANGED <<blockNumber, stdout, stderr, baseFeePerGas, exitCode>>
                /\ UNCHANGED libVars

\* getBlockWithTransactions(i) resolves to null (the provider does not know
\* the block): the destructuring in dataFormatter throws a TypeError
GetBlockWithTransactionsNull ==
    /\ pc = "getBlockWithTransactions"
    /\ Fail("TypeError")

GetBlockWithTransactionsRejected ==
    /\ pc = "getBlockWithTransactions"
    /\ Fail("getBlockWithTransactions")

\* getBlock("pending") resolves: the then-callback logs the estimate, and
\* .then(() => process.exit(0)) ends the process
GetBlockResolved ==
    /\ pc = "getBlock"
    /\ \E base \in BigNumbers(MaxBaseFee) :
        IF ~base.safe
        THEN Fail("toNumber")
        ELSE /\ baseFeePerGas' = toNumber(base)
             /\ stdout' = Append(stdout, Estimate(toNumber(base), slowMaxPriorityFee,
                                         averageMaxPriorityFee, fastMaxPriorityFee))
             /\ exitCode' = Append(exitCode, ExitSuccess)
             /\ pc' = "exited"
             /\ UNCHANGED <<blockNumber, i, blocks, slowMaxPriorityFee,
                            averageMaxPriorityFee, fastMaxPriorityFee, calls,
                            fetched, stderr>>
             /\ UNCHANGED libVars

GetBlockRejected ==
    /\ pc = "getBlock"
    /\ Fail("getBlock")

Next ==
    \/ GetBlockNumberResolved
    \/ GetBlockNumberRejected
    \/ GetBlockWithTransactionsResolved
    \/ GetBlockWithTransactionsNull
    \/ GetBlockWithTransactionsRejected
    \/ GetBlockResolved
    \/ GetBlockRejected

Spec == Init /\ [][Next]_vars


----------------------------------------------------------------------------
(* SpecLib: one call of quantile, mean or dataFormatter *)

\* q = 0, 0.3, 0.6, 0.9 and 1, in tenths
Quantiles == {0, Q30, Q60, Q90, Scale}
Arrays == SeqsUpTo({Num(Scale * x) : x \in 0..MaxVal}, MaxLen)
LibTransactions == [type : {0, Eip1559}, maxPriorityFeePerGas : BigNumbers(MaxVal)]
LibBlocks == [number : {0}, transactions : SeqsUpTo(LibTransactions, MaxLen)]

\* the state of the run's variables while a pure function is called alone
RunIdle ==
    /\ pc = "idle"
    /\ blockNumber = 0
    /\ i = 0
    /\ blocks = <<>>
    /\ slowMaxPriorityFee = Undefined
    /\ averageMaxPriorityFee = Undefined
    /\ fastMaxPriorityFee = Undefined
    /\ calls = <<>>
    /\ fetched = <<>>
    /\ stdout = <<>>
    /\ stderr = <<>>
    /\ baseFeePerGas = Undefined
    /\ exitCode = <<>>

LibInit ==
    /\ RunIdle
    /\ returned = "no"
    /\ ret = Undefined
    /\ divisors = <<>>
    /\ summary = Undefined
    /\ maxPriorityFeePerGasArray = <<>>
    /\ \/ /\ fn = "quantile"
          /\ arr \in Arrays
          /\ q \in Quantiles
          /\ block = [number |-> 0, transactions |-> <<>>]
       \/ /\ fn = "mean"
          /\ arr \in Arrays
          /\ q = 0
          /\ block = [number |-> 0, transactions |-> <<>>]
       \/ /\ fn = "dataFormatter"
          /\ arr = <<>>
          /\ q = 0
          /\ block \in LibBlocks

\* quantile(arr, q): asc(arr) sorts the caller's array itself (Array.sort is
\* in place and `sorted` is the same array), and no division is evaluated
CallQuantile ==
    /\ fn = "quantile"
    /\ returned = "no"
    /\ ret' = quantile(arr, q)
    /\ arr' = asc(arr)
    /\ returned' = "yes"
    /\ UNCHANGED <<fn, q, block, divisors, summary, maxPriorityFeePerGasArray>>
    /\ UNCHANGED runVars

\* mean(arr): sum(arr) / arr.length is evaluated whatever arr.length is
CallMean ==
    /\ fn = "mean"
    /\ returned = "no"
    /\ ret' = mean(arr)
    /\ divisors' = Append(divisors, Len(arr))
    /\ returned' = "yes"
    /\ UNCHANGED <<fn, arr, q, block, summary, maxPriorityFeePerGasArray>>
    /\ UNCHANGED runVars

\* dataFormatter(block): the local array is sorted by the first quantile call
CallDataFormatter ==
    /\ fn = "dataFormatter"
    /\ returned = "no"
    /\ IF dataFormatterThrows(block)
       THEN /\ returned' = "threw"
            /\ UNCHANGED <<summary, maxPriorityFeePerGasArray>>
       ELSE /\ returned' = "yes"
            /\ summary' = dataFormatter(block)
            /\ maxPriorityFeePerGasArray' = asc(Samples(block))
    /\ UNCHANGED <<fn, arr, q, block, ret, divisors>>
    /\ UNCHANGED runVars

LibNext ==
    \/ CallQuantile
    \/ CallMean
    \/ CallDataFormatter

SpecLib == LibInit /\ [][LibNext]_vars


----------------------------------------------------------------------------
(* Properties *)

Methods == {"getBlockNumber", "getBlockWithTransactions", "getBlock"}
Emitted == stdout # <<>>
Tier(k, t) == blocks[k].maxPriorityFeePerGas[t]
TierDefined(t) == \A k \in DOMAIN blocks : IsNum(Tier(k, t))
\* the total of tier t over the four blocks of the window, in tenths
TierTotal(t) == Tier(1, t).v + Tier(2, t).v + Tier(3, t).v + Tier(4, t).v
\* total = baseFeePerGas + r, r the integer nearest to TierTotal(t) / (Scale * 4),
\* halves upwards; NaN when a block of the window has no tier t
IsBasePlusMean(total, t) ==
    IF TierDefined(t)
    THEN /\ IsNum(total)
         /\ (total.v - baseFeePerGas.v) % Scale = 0
         /\ LET r == (total.v - baseFeePerGas.v) \div Scale
            IN /\ 2 * Scale * WindowSize * r - Scale * WindowSize <= 2 * TierTotal(t)
               /\ 2 * TierTotal(t) < 2 * Scale * WindowSize * r + Scale * WindowSize
    ELSE total = NaN

\* C1: a run that emits a result emits {slow, average, fast} with
\* slow = pendingBaseFeePerGas + mean of tier[0] over the four blocks,
\* average the same of tier[1], fast of tier[2], the mean rounded to the
\* nearest integer (NaN where a block of the window has no tiers)
C1_EstimateIsBasePlusRoundedMean ==
    Emitted =>
        /\ Len(stdout) = 1
        /\ Len(blocks) = WindowSize
        /\ IsNum(baseFeePerGas)
        /\ IsBasePlusMean(stdout[1].slow, 1)
        /\ IsBasePlusMean(stdout[1].average, 2)
        /\ IsBasePlusMean(stdout[1].fast, 3)

\* a result whose slow tier mean lies exactly between two integers and is
\* rounded upwards, with a non-zero base fee added
C1_Witness ==
    /\ Emitted
    /\ TierDefined(1)
    /\ baseFeePerGas.v > 0
    /\ (2 * TierTotal(1)) % (2 * Scale * WindowSize) = Scale * WindowSize
    /\ stdout[1].slow.v > baseFeePerGas.v

\* C2: quantile(samples, q) leaves the caller's array as it was
C2_QuantileKeepsInput ==
    [][(fn = "quantile" /\ returned = "no" /\ returned' = "yes") => arr' = arr]_vars

\* C3: mean([]) and quantile([], q) signal an error or a sentinel of their
\* own: the call throws or returns something that is no number, NaN or
\* undefined, and no division by zero is evaluated
C3_EmptyInputSignalled ==
    (fn \in {"mean", "quantile"} /\ returned # "no" /\ arr = <<>>) =>
        /\ 0 \notin {divisors[k] : k \in DOMAIN divisors}
        /\ \/ returned = "threw"
           \/ ret.type \notin {"number", "NaN", "undefined"}

\* C4: whatever blocks of the window have no type-2 transaction, the totals
\* of an emitted result are numbers
C4_TotalsAreNumbers ==
    Emitted =>
        /\ IsNum(stdout[1].slow)
        /\ IsNum(stdout[1].average)
        /\ IsNum(stdout[1].fast)

\* C5: a provider call that fails is the last call of the run, nothing is
\* emitted and the process exits with code 1; a result is emitted only after
\* all six calls have succeeded
C5_FailFast ==
    /\ (stderr # <<>> /\ stderr[1] \in Methods) =>
        /\ pc = "exited"
        /\ exitCode = <<ExitFailure>>
        /\ stdout = <<>>
        /\ Len(stderr) = 1
        /\ calls[Len(calls)] = stderr[1]
        /\ stderr[1] = "getBlockNumber" => (calls = <<"getBlockNumber">> /\ fetched = <<>>)
        /\ stderr[1] = "getBlockWithTransactions" => Len(blocks) = Len(fetched) - 1
        /\ stderr[1] = "getBlock" => Len(calls) = WindowSize + 2
        /\ ~ENABLED Next
    /\ Emitted =>
        /\ stderr = <<>>
        /\ exitCode = <<ExitSuccess>>
        /\ Len(blocks) = WindowSize
        /\ Len(calls) = WindowSize + 2

\* the fetch of the third block of the window fails
C5_Witness ==
    /\ stderr = <<"getBlockWithTransactions">>
    /\ Len(fetched) = 3
    /\ exitCode = <<ExitFailure>>

\* C6: with N the answer of the one getBlockNumber call, the run fetches
\* N-4, N-3, N-2, N-1 in this order, each once, never N; the summaries are
\* kept in that order; the pending block is fetched after the four
C6_WindowOrder ==
    /\ calls[1] = "getBlockNumber"
    /\ Cardinality({k \in DOMAIN calls : calls[k] = "getBlockNumber"}) = 1
    /\ Len(fetched) <= WindowSize
    /\ \A k \in DOMAIN fetched : fetched[k] = blockNumber - WindowSize + (k - 1)
    /\ \A k \in DOMAIN fetched : fetched[k] # blockNumber
    /\ Len(blocks) <= Len(fetched)
    /\ \A k \in DOMAIN blocks : blocks[k].number = fetched[k]
    /\ \A k \in DOMAIN calls : calls[k] = "getBlock" =>
        /\ k = WindowSize + 2
        /\ Len(fetched) = WindowSize
        /\ Len(blocks) = WindowSize
    /\ Emitted => calls[Len(calls)] = "getBlock"

\* a complete run from the head MaxBlockNumber
C6_Witness ==
    /\ Emitted
    /\ blockNumber = MaxBlockNumber
    /\ fetched = <<MaxBlockNumber - 4, MaxBlockNumber - 3,
                   MaxBlockNumber - 2, MaxBlockNumber - 1>>

\* C7: on a non-empty array quantile(samples, 0) is the least element and
\* quantile(samples, 1) the greatest
C7_QuantileEnds ==
    [][(fn = "quantile" /\ returned = "no" /\ returned' = "yes" /\ arr # <<>>) =>
           /\ q = 0 => /\ \E k \in DOMAIN arr : ret' = arr[k]
                       /\ \A k \in DOMAIN arr : ret'.v <= arr[k].v
           /\ q = Scale => /\ \E k \in DOMAIN arr : ret' = arr[k]
                           /\ \A k \in DOMAIN arr : ret'.v >= arr[k].v]_vars

\* quantile(samples, 1) has returned on an array of three different values
C7_Witness ==
    /\ fn = "quantile"
    /\ returned = "yes"
    /\ q = Scale
    /\ Len(arr) = 3
    /\ Cardinality({arr[k] : k \in DOMAIN arr}) = 3
    /\ ret.v = MaxVal * Scale

\* C8: the tiers dataFormatter gives a block with at least one type-2
\* transaction are numbers with q30 <= q60 <= q90
C8_TiersNonDecreasing ==
    (/\ fn = "dataFormatter"
     /\ returned = "yes"
     /\ \E k \in DOMAIN block.transactions : block.transactions[k].type = Eip1559) =>
        /\ \A t \in 1..3 : IsNum(summary.maxPriorityFeePerGas[t])
        /\ summary.maxPriorityFeePerGas[1].v <= summary.maxPriorityFeePerGas[2].v
        /\ summary.maxPriorityFeePerGas[2].v <= summary.maxPriorityFeePerGas[3].v

\* a block whose three tiers are interpolated and strictly increasing
C8_Witness ==
    /\ fn = "dataFormatter"
    /\ returned = "yes"
    /\ Len(maxPriorityFeePerGasArray) >= 2
    /\ summary.maxPriorityFeePerGas[1].v % Scale # 0
    /\ summary.maxPriorityFeePerGas[1].v < summary.maxPriorityFeePerGas[2].v
    /\ summary.maxPriorityFeePerGas[2].v < summary.maxPriorityFeePerGas[3].v

\* C9: the samples of a block are the maxPriorityFeePerGas of its type-2
\* transactions, one each, and nothing else
C9_SamplesAreType2Fees ==
    (fn = "dataFormatter" /\ returned = "yes") =>
        /\ Len(maxPriorityFeePerGasArray) =
              Cardinality({k \in DOMAIN block.transactions :
                              block.transactions[k].type = 2})
        /\ \A x \in 0..MaxVal :
              Cardinality({k \in DOMAIN maxPriorityFeePerGasArray :
                              maxPriorityFeePerGasArray[k] = Num(Scale * x)})
              = Cardinality({k \in DOMAIN block.transactions :
                              /\ block.transactions[k].type = 2
                              /\ block.transactions[k].maxPriorityFeePerGas = BN(x)})

\* a block with a legacy transaction between two type-2 transactions
C9_Witness ==
    /\ fn = "dataFormatter"
    /\ returned = "yes"
    /\ Len(block.transactions) = 3
    /\ block.transactions[1].type = 2
    /\ block.transactions[2].type = 0
    /\ block.transactions[2].maxPriorityFeePerGas = BN(MaxVal)
    /\ block.transactions[3].type = 2
    /\ Len(maxPriorityFeePerGasArray) = 2

\* C10: when every block of the window has a type-2 transaction, the result
\* has slow <= average <= fast, and each total is at least the base fee
C10_TotalsOrdered ==
    (Emitted /\ \A t \in 1..3 : TierDefined(t)) =>
        /\ IsNum(stdout[1].slow) /\ IsNum(stdout[1].average) /\ IsNum(stdout[1].fast)
        /\ stdout[1].slow.v <= stdout[1].average.v
        /\ stdout[1].average.v <= stdout[1].fast.v
        /\ baseFeePerGas.v <= stdout[1].slow.v

\* a result with slow < fast from a window without an empty block
C10_Witness ==
    /\ Emitted
    /\ \A t \in 1..3 : TierDefined(t)
    /\ baseFeePerGas.v <= stdout[1].slow.v
    /\ stdout[1].slow.v < stdout[1].fast.v

============================================================================
